---- MODULE Spec2Model ----
(***************************************************************************)
(* The Go worker pool of the repository: main spawns the workers, submits  *)
(* the jobs on a buffered channel, closes it, starts a goroutine that      *)
(* waits on the WaitGroup and closes the results channel, and ranges over  *)
(* results.  The literals of main (3 workers, 5 jobs, capacities 5 and 5)  *)
(* are configuration variables: a behaviour starts either with the         *)
(* repository's literals or with a small configuration of buffered         *)
(* channels (capacity >= 1, as in the repository).                         *)
(***************************************************************************)
EXTENDS Integers, Sequences, FiniteSets

\* Ranges of the small configurations explored beside the repository's run.
MaxWorkers == 2
MaxJobs == 3
MaxCap == 2

\* The most goroutines the counter example starts.
MaxIncrementers == 3

\* The slices passed to processNumbers: at most MaxLen elements of 0..MaxNumber
\* (and the repository's slice).
MaxLen == 3
MaxNumber == 2

\* The most calls of Push and Pop made on one stack.
MaxStackOps == 5

\* The ids of the items added to a Container, and the most calls of add.
MaxId == 2
MaxAdds == 4

\* The literals of main's worker pool section.
RepoWorkers == 3
RepoJobs == 5
RepoJobsCap == 5
RepoResultsCap == 5

VARIABLES
    workerCount,    \* upper limit of main's spawn loop
    numJobs,        \* upper limit of main's submit loop
    jobsCap,        \* capacity of the jobs channel
    resultsCap,     \* capacity of the results channel
    pc,             \* position of main
    w,              \* main's spawn loop variable
    j,              \* main's submit loop variable
    jobs,           \* buffer of the jobs channel
    jobsClosed,     \* close(jobs) has run
    results,        \* buffer of the results channel
    resultsClosed,  \* close(results) has run
    wg,             \* counter of the WaitGroup
    wstate,         \* position of each worker goroutine
    wjob,           \* the loop variable job of each worker
    closer,         \* position of the goroutine that closes results
    workerResults,  \* the slice main collects
    recvLog,        \* history: the jobs in the order receives delivered them
    closeCalls,     \* history: how many times close(results) has run
    \* -- the concurrent counter example --
    numIncr,        \* upper limit of main's loop that starts the goroutines
    cpc,            \* position of main in the counter example
    ci,             \* main's loop variable i
    counterWg,      \* counter of that example's WaitGroup
    mu,             \* c.mu is locked
    count,          \* c.count
    gstate,         \* position of each incrementing goroutine
    gtmp,           \* the value of c.count a goroutine read in c.count++
    printed,        \* the value Value() returned to main (-1: not yet)
    \* -- the channel example (processNumbers) --
    numbers,        \* the slice passed to processNumbers
    out,            \* the unbuffered channel: the value a blocked sender offers
    outClosed,      \* close(out) has run
    pstate,         \* position of the goroutine processNumbers starts
    pk,             \* index of the element that goroutine's loop is at
    cstate,         \* position of main in the channel example
    sq,             \* main's loop variable sq
    received,       \* the values main's loop body has appended, in order
    \* -- the generic stack --
    items,          \* s.items
    popItem,        \* the item the last Pop returned
    popOk,          \* the bool the last Pop returned
    stackHist,      \* history: the calls made, each with the contents before it
    \* -- the TypeScript Container --
    cItems,         \* this.items: the Map's entries in insertion order
    addHist         \* history: the items added, each with the entries before it

poolVars == <<workerCount, numJobs, jobsCap, resultsCap, pc, w, j, jobs, jobsClosed,
              results, resultsClosed, wg, wstate, wjob, closer, workerResults,
              recvLog, closeCalls>>

counterVars == <<numIncr, cpc, ci, counterWg, mu, count, gstate, gtmp, printed>>

\* The variables of the examples other than the worker pool.
chanVars == <<numbers, out, outClosed, pstate, pk, cstate, sq, received>>

stackVars == <<items, popItem, popOk, stackHist>>

containerVars == <<cItems, addHist>>

others == <<counterVars, chanVars, stackVars, containerVars>>

vars == <<poolVars, others>>

config == <<workerCount, numJobs, jobsCap, resultsCap>>

Workers == 1..workerCount

\* Every goroutine identity a configuration can use.
WorkerIds == 1..(IF MaxWorkers > RepoWorkers THEN MaxWorkers ELSE RepoWorkers)

\* The transform of processNumbers (n * n) in place of the worker's.
transformSquare(job) == job * job

\* results <- job * 2
transform(job) == job * 2

\* A buffer that counts itself full one slot early.
CanSendOneLess(ch, cap) == Len(ch) < cap - 1

\* A send on a buffered channel proceeds while the buffer has room.
CanSend(ch, cap) == Len(ch) < cap

\* A receive that delivers the newest element of the buffer.
RecvValueNewest(ch) == ch[Len(ch)]

\* A receive delivers the oldest element of the buffer ...
RecvValue(ch) == Head(ch)

\* A receive that leaves the element in the buffer (a broadcast).
RecvRestKeep(ch) == ch

\* ... and removes it.
RecvRest(ch) == Tail(ch)

\* A range that ends as soon as the channel is closed, buffered or not.
RangeEndsOnClose(ch, closed) == closed

\* range over a channel ends once it is closed and empty.
RangeEnds(ch, closed) == closed /\ ch = <<>>

\* A Wait that returns while one worker is still counted.
WaitReturnsEarly(n) == n <= 1

\* wg.Wait returns once the counter is zero.
WaitReturns(n) == n = 0

\* counter := &ConcurrentCounter{}; var wg sync.WaitGroup
CounterStart ==
    /\ cpc = "spawn"
    /\ ci = 0
    /\ counterWg = 0
    /\ mu = FALSE
    /\ count = 0
    /\ gstate = [g \in 1..MaxIncrementers |-> "unspawned"]
    /\ gtmp = [g \in 1..MaxIncrementers |-> 0]
    /\ printed = -1

\* main before the call of processNumbers.
ChanStart ==
    /\ out = <<>>
    /\ outClosed = FALSE
    /\ pstate = "unspawned"
    /\ pk = 1
    /\ cstate = "call"
    /\ sq = 0
    /\ received = <<>>

\* stack := &Stack[string]{}
StackStart ==
    /\ items = <<>>
    /\ popItem = ""
    /\ popOk = FALSE
    /\ stackHist = <<>>

\* private items: Map<number, T> = new Map()
ContainerStart ==
    /\ cItems = <<>>
    /\ addHist = <<>>

CounterIdle == numIncr = 0 /\ CounterStart

ChanIdle == numbers = <<>> /\ ChanStart

\* The other examples have not started while the worker pool runs.
OthersIdle ==
    /\ CounterIdle
    /\ ChanIdle
    /\ StackStart
    /\ ContainerStart

\* jobs, results and wg of the worker pool before its spawn loop.
PoolStart ==
    /\ pc = "spawn"
    /\ w = 1
    /\ j = 1
    /\ jobs = <<>>
    /\ jobsClosed = FALSE
    /\ results = <<>>
    /\ resultsClosed = FALSE
    /\ wg = 0
    /\ wstate = [i \in WorkerIds |-> "unspawned"]
    /\ wjob = [i \in WorkerIds |-> 0]
    /\ closer = "unspawned"
    /\ workerResults = <<>>
    /\ recvLog = <<>>
    /\ closeCalls = 0

\* The worker pool has not started while another example runs.
PoolIdle ==
    /\ workerCount = RepoWorkers
    /\ numJobs = RepoJobs
    /\ jobsCap = RepoJobsCap
    /\ resultsCap = RepoResultsCap
    /\ PoolStart

InitWith(minWorkers) ==
    /\ OthersIdle
    /\ \/ /\ workerCount \in minWorkers..MaxWorkers
          /\ numJobs \in 0..MaxJobs
          /\ jobsCap \in 1..MaxCap
          /\ resultsCap \in 1..MaxCap
       \/ /\ workerCount = RepoWorkers
          /\ numJobs = RepoJobs
          /\ jobsCap = RepoJobsCap
          /\ resultsCap = RepoResultsCap
    /\ PoolStart

Init == InitWith(1)

\* for w := 1; w <= 3; w++ { wg.Add(1); go worker(w, jobs, results, &wg) }
SpawnWorker ==
    /\ pc = "spawn"
    /\ w <= workerCount
    /\ wg' = wg + 1
    /\ wstate' = [wstate EXCEPT ![w] = "fetching"]
    /\ w' = w + 1
    /\ UNCHANGED <<others, config, pc, j, jobs, jobsClosed, results, resultsClosed, wjob,
                   closer, workerResults, recvLog, closeCalls>>

SpawnDone ==
    /\ pc = "spawn"
    /\ w > workerCount
    /\ pc' = "submit"
    /\ UNCHANGED <<others, config, w, j, jobs, jobsClosed, results, resultsClosed, wg,
                   wstate, wjob, closer, workerResults, recvLog, closeCalls>>

\* for j := 1; j <= 5; j++ { jobs <- j }
Submit ==
    /\ pc = "submit"
    /\ j <= numJobs
    /\ CanSend(jobs, jobsCap)
    /\ jobs' = Append(jobs, j)
    /\ j' = j + 1
    /\ UNCHANGED <<others, config, pc, w, jobsClosed, results, resultsClosed, wg, wstate,
                   wjob, closer, workerResults, recvLog, closeCalls>>

\* close(jobs)
CloseJobs ==
    /\ pc = "submit"
    /\ j > numJobs
    /\ jobsClosed' = TRUE
    /\ pc' = "go_closer"
    /\ UNCHANGED <<others, config, w, j, jobs, results, resultsClosed, wg, wstate, wjob,
                   closer, workerResults, recvLog, closeCalls>>

\* go func() { wg.Wait(); close(results) }()
GoCloser ==
    /\ pc = "go_closer"
    /\ closer' = "wait"
    /\ pc' = "drain"
    /\ UNCHANGED <<others, config, w, j, jobs, jobsClosed, results, resultsClosed, wg,
                   wstate, wjob, workerResults, recvLog, closeCalls>>

\* A closer goroutine without the wg.Wait().
CloserNoWait ==
    /\ closer = "wait"
    /\ closer' = "close"
    /\ UNCHANGED <<others, config, pc, w, j, jobs, jobsClosed, results, resultsClosed, wg,
                   wstate, wjob, workerResults, recvLog, closeCalls>>

CloserWait ==
    /\ closer = "wait"
    /\ WaitReturns(wg)
    /\ closer' = "close"
    /\ UNCHANGED <<others, config, pc, w, j, jobs, jobsClosed, results, resultsClosed, wg,
                   wstate, wjob, workerResults, recvLog, closeCalls>>

CloserClose ==
    /\ closer = "close"
    /\ resultsClosed' = TRUE
    /\ closeCalls' = closeCalls + 1
    /\ closer' = "done"
    /\ UNCHANGED <<others, config, pc, w, j, jobs, jobsClosed, results, wg, wstate, wjob,
                   workerResults, recvLog>>

\* for job := range jobs: one receive
WorkerRecv(i) ==
    /\ wstate[i] = "fetching"
    /\ jobs # <<>>
    /\ wjob' = [wjob EXCEPT ![i] = RecvValue(jobs)]
    /\ jobs' = RecvRest(jobs)
    /\ recvLog' = Append(recvLog, RecvValue(jobs))
    /\ wstate' = [wstate EXCEPT ![i] = "emitting"]
    /\ UNCHANGED <<others, config, pc, w, j, jobsClosed, results, resultsClosed, wg,
                   closer, workerResults, closeCalls>>

\* results <- job * 2
WorkerSend(i) ==
    /\ wstate[i] = "emitting"
    /\ CanSend(results, resultsCap)
    /\ results' = Append(results, transform(wjob[i]))
    /\ wstate' = [wstate EXCEPT ![i] = "fetching"]
    /\ UNCHANGED <<others, config, pc, w, j, jobs, jobsClosed, resultsClosed, wg, wjob,
                   closer, workerResults, recvLog, closeCalls>>

\* A worker that returns without the deferred wg.Done().
WorkerExitNoDone(i) ==
    /\ wstate[i] = "fetching"
    /\ RangeEnds(jobs, jobsClosed)
    /\ wstate' = [wstate EXCEPT ![i] = "stopped"]
    /\ UNCHANGED <<others, config, pc, w, j, jobs, jobsClosed, results, resultsClosed, wg,
                   wjob, closer, workerResults, recvLog, closeCalls>>

\* the range loop ends and the deferred wg.Done() runs
WorkerExit(i) ==
    /\ wstate[i] = "fetching"
    /\ RangeEnds(jobs, jobsClosed)
    /\ wstate' = [wstate EXCEPT ![i] = "stopped"]
    /\ wg' = wg - 1
    /\ UNCHANGED <<others, config, pc, w, j, jobs, jobsClosed, results, resultsClosed,
                   wjob, closer, workerResults, recvLog, closeCalls>>

\* for r := range results { workerResults = append(workerResults, r) }
Drain ==
    /\ pc = "drain"
    /\ results # <<>>
    /\ workerResults' = Append(workerResults, RecvValue(results))
    /\ results' = RecvRest(results)
    /\ UNCHANGED <<others, config, pc, w, j, jobs, jobsClosed, resultsClosed, wg, wstate,
                   wjob, closer, recvLog, closeCalls>>

DrainEnd ==
    /\ pc = "drain"
    /\ RangeEnds(results, resultsClosed)
    /\ pc' = "done"
    /\ UNCHANGED <<others, config, w, j, jobs, jobsClosed, results, resultsClosed, wg,
                   wstate, wjob, closer, workerResults, recvLog, closeCalls>>

Next ==
    \/ SpawnWorker
    \/ SpawnDone
    \/ Submit
    \/ CloseJobs
    \/ GoCloser
    \/ CloserWait
    \/ CloserClose
    \/ \E i \in Workers : WorkerRecv(i)
    \/ \E i \in Workers : WorkerSend(i)
    \/ \E i \in Workers : WorkerExit(i)
    \/ Drain
    \/ DrainEnd

Spec == Init /\ [][Next]_vars

\* The same program when the spawn loop's limit may also be 0.
InitAnyCount == InitWith(0)

SpecAnyCount == InitAnyCount /\ [][Next]_vars

\* The steps of each goroutine; the Go scheduler runs every goroutine that
\* can take a step.
MainStep == SpawnWorker \/ SpawnDone \/ Submit \/ CloseJobs \/ GoCloser \/ Drain \/ DrainEnd

CloserStep == CloserWait \/ CloserClose

WorkerStep(i) == WorkerRecv(i) \/ WorkerSend(i) \/ WorkerExit(i)

Fairness ==
    /\ WF_vars(MainStep)
    /\ WF_vars(CloserStep)
    /\ \A i \in WorkerIds : WF_vars(WorkerStep(i))

FairSpec == Spec /\ Fairness

TypeOK ==
    /\ pc \in {"spawn", "submit", "go_closer", "drain", "done"}
    /\ Len(jobs) <= jobsCap
    /\ Len(results) <= resultsCap

(***************************************************************************)
(* Vocabulary of the properties.                                           *)
(***************************************************************************)

\* How many elements of seq equal x.
Count(seq, x) == Cardinality({k \in 1..Len(seq) : seq[k] = x})

\* The jobs main has sent on the jobs channel so far.
Submitted == 1..(j - 1)

\* Every result that has been sent on results, in the order of the stream.
ResultStream == workerResults \o results

\* The workers that hold job between their receive and their send.
Holding(job) == {i \in Workers : wstate[i] = "emitting" /\ wjob[i] = job}

AllWorkersStopped == \A i \in Workers : wstate[i] = "stopped"

IsRepoRun ==
    /\ workerCount = RepoWorkers
    /\ numJobs = RepoJobs
    /\ jobsCap = RepoJobsCap
    /\ resultsCap = RepoResultsCap

IsPermutation(s, t) ==
    /\ Len(s) = Len(t)
    /\ \A k \in 1..Len(t) : Count(s, t[k]) = Count(t, t[k])

\* C1: every job submitted is, in every state, in exactly one place (the
\* jobs buffer, a worker's hands, or once in the result stream as job*2), the
\* result stream holds nothing else, and when main's range over results has
\* ended every job's result has been collected exactly once; in the
\* repository's run the collected slice is a permutation of [2,4,6,8,10].
C1_ExactlyOneResultPerJob ==
    /\ \A job \in Submitted :
          /\ Count(jobs, job) + Cardinality(Holding(job))
                + Count(ResultStream, 2 * job) = 1
          /\ pc = "done" => Count(workerResults, 2 * job) = 1
    /\ \A k \in 1..Len(ResultStream) :
          \E job \in Submitted : ResultStream[k] = 2 * job
    /\ pc = "done" => Submitted = 1..numJobs /\ Len(workerResults) = numJobs
    /\ (pc = "done" /\ IsRepoRun) => IsPermutation(workerResults, <<2, 4, 6, 8, 10>>)

\* The repository's run has ended with the results out of submission order.
C1_Witness ==
    /\ pc = "done"
    /\ IsRepoRun
    /\ workerResults # <<2, 4, 6, 8, 10>>
    /\ IsPermutation(workerResults, <<2, 4, 6, 8, 10>>)

\* C2 (as stated): results is closed exactly when every worker has stopped.
C2_ClosedIffAllStopped == resultsClosed <=> AllWorkersStopped

\* C2 (amended): if results is closed then every worker has stopped.
C2_ClosedImpliesAllStopped == resultsClosed => AllWorkersStopped

\* results has been closed after several workers processed jobs and stopped.
C2_Witness ==
    /\ resultsClosed
    /\ AllWorkersStopped
    /\ workerCount >= 2
    /\ Len(recvLog) >= 2

\* C3: no job is delivered by more than one receive, and no two workers
\* hold the same job at the same time.
C3_AtMostOnceDispatch ==
    /\ \A job \in Submitted : Count(recvLog, job) <= 1
    /\ \A job \in Submitted : Cardinality(Holding(job)) <= 1

\* Two workers hold jobs at once, taken from the same channel.
C3_Witness ==
    \E a, b \in Workers :
        /\ a # b
        /\ wstate[a] = "emitting"
        /\ wstate[b] = "emitting"
        /\ wjob[a] # wjob[b]
        /\ Count(recvLog, wjob[a]) = 1
        /\ Count(recvLog, wjob[b]) = 1

\* C4: under fair scheduling, once jobs is closed results is eventually
\* closed, and close(results) never runs a second time.
C4_ResultsEventuallyClosedOnce ==
    /\ (jobsClosed ~> resultsClosed)
    /\ [](closeCalls <= 1)
    /\ [](resultsClosed <=> closeCalls = 1)

\* results has been closed, once, after jobs was closed and jobs were processed.
C4_Witness ==
    /\ jobsClosed
    /\ resultsClosed
    /\ closeCalls = 1
    /\ Len(workerResults) >= 2

\* C5: when results is closed, every job that was submitted has had its
\* result sent: none waits in the jobs buffer or in a worker's hands, so the
\* range over results cannot end with a result outstanding.
C5_ClosedOnlyAfterAllResults ==
    resultsClosed =>
        /\ Submitted = 1..numJobs
        /\ jobs = <<>>
        /\ \A i \in Workers : wstate[i] # "emitting"
        /\ \A job \in Submitted : Count(ResultStream, 2 * job) = 1

\* results is closed while main still has results to read from the buffer.
C5_Witness ==
    /\ resultsClosed
    /\ pc = "drain"
    /\ Len(results) >= 2
    /\ numJobs >= 3

\* main is at a send on jobs that cannot proceed.
SubmitBlocked == pc = "submit" /\ j <= numJobs /\ ~CanSend(jobs, jobsCap)

\* C6 (as stated): with no more jobs than the queue capacity plus the
\* workers' in-flight capacity (one job per worker), no submit blocks.
C6_NoBlockUpToQueuePlusInFlight ==
    numJobs <= jobsCap + workerCount => ~SubmitBlocked

\* C6 (amended): with no more jobs than the queue capacity no submit ever
\* blocks (so none does in the repository's run); a blocked submit becomes
\* enabled again only by a step in which a worker removes a job from jobs.
C6_Backpressure ==
    /\ [](numJobs <= jobsCap => ~SubmitBlocked)
    /\ [](IsRepoRun => ~SubmitBlocked)
    /\ [][(SubmitBlocked /\ ~SubmitBlocked') =>
            /\ Len(jobs') = Len(jobs) - 1
            /\ Len(recvLog') = Len(recvLog) + 1]_vars

\* With more jobs than the queue holds, a submit is blocked on a full queue
\* after earlier blocked submits were released by the workers' receives.
C6_Witness ==
    /\ SubmitBlocked
    /\ numJobs > jobsCap
    /\ j > jobsCap + 1
    /\ Len(recvLog) >= 1

\* C7: a job is received only after every job enqueued before it (the jobs
\* are enqueued in the order 1, 2, ...) has been received.
C7_FifoDelivery ==
    \A p \in 1..Len(recvLog) :
        \A job \in 1..(recvLog[p] - 1) :
            \E q \in 1..(p - 1) : recvLog[q] = job

\* Jobs were received in enqueue order and their results reached the
\* results channel in another order.
C7_Witness ==
    /\ Len(recvLog) >= 3
    /\ \E p, q \in 1..Len(ResultStream) :
          p < q /\ ResultStream[p] > ResultStream[q]

\* C9: with a worker count of 0 no pool exists: no job is accepted on the
\* jobs channel and no result stream is produced (results is never closed
\* for a reader to range over).
C9_ZeroWorkersRejected ==
    workerCount = 0 =>
        /\ Submitted = {}
        /\ ~resultsClosed
        /\ pc # "done"

\* C10: a worker is stopped only when jobs is closed and empty, it stops in
\* a step that calls wg.Done once (the counter is the number of running
\* workers), and once jobs is closed and empty every worker eventually stops.
C10_StopOnlyWhenClosedAndDrained ==
    /\ [](\A i \in Workers : wstate[i] = "stopped" => jobsClosed /\ jobs = <<>>)
    /\ [](wg = Cardinality({i \in Workers : wstate[i] \in {"fetching", "emitting"}}))
    /\ [][\A i \in Workers :
            (wstate[i] # "stopped" /\ wstate'[i] = "stopped") =>
                jobsClosed /\ jobs = <<>> /\ wg' = wg - 1]_vars
    /\ ((jobsClosed /\ jobs = <<>>) ~> AllWorkersStopped)

\* Every worker has stopped after the queue was closed and the workers
\* drained it.
C10_Witness ==
    /\ AllWorkersStopped
    /\ wg = 0
    /\ jobsClosed
    /\ jobs = <<>>
    /\ workerCount >= 2
    /\ Len(recvLog) >= 3

(***************************************************************************)
(* The concurrent counter example: main starts numIncr goroutines (100 in  *)
(* the repository), each calling counter.Increment() once, waits for them  *)
(* and prints counter.Value().  c.count++ is a read followed by a write.   *)
(***************************************************************************)

Incrementers == 1..numIncr

\* A Lock that succeeds whether or not the mutex is held.
LockFreeAlways(m) == TRUE

\* c.mu.Lock() proceeds only while the mutex is not held.
LockFree(m) == m = FALSE

CounterInit ==
    /\ PoolIdle
    /\ ChanIdle
    /\ StackStart
    /\ ContainerStart
    /\ numIncr \in 0..MaxIncrementers
    /\ CounterStart

\* for i := 0; i < 100; i++ { wg.Add(1); go func() {...}() }
CounterSpawn ==
    /\ cpc = "spawn"
    /\ ci < numIncr
    /\ counterWg' = counterWg + 1
    /\ gstate' = [gstate EXCEPT ![ci + 1] = "lock"]
    /\ ci' = ci + 1
    /\ UNCHANGED <<poolVars, chanVars, stackVars, containerVars, numIncr, cpc, mu, count, gtmp, printed>>

CounterSpawnDone ==
    /\ cpc = "spawn"
    /\ ci >= numIncr
    /\ cpc' = "wait"
    /\ UNCHANGED <<poolVars, chanVars, stackVars, containerVars, numIncr, ci, counterWg, mu, count, gstate, gtmp, printed>>

\* Increment: c.mu.Lock()
IncLock(g) ==
    /\ gstate[g] = "lock"
    /\ LockFree(mu)
    /\ mu' = TRUE
    /\ gstate' = [gstate EXCEPT ![g] = "read"]
    /\ UNCHANGED <<poolVars, chanVars, stackVars, containerVars, numIncr, cpc, ci, counterWg, count, gtmp, printed>>

\* Increment: c.count++ reads c.count ...
IncRead(g) ==
    /\ gstate[g] = "read"
    /\ gtmp' = [gtmp EXCEPT ![g] = count]
    /\ gstate' = [gstate EXCEPT ![g] = "write"]
    /\ UNCHANGED <<poolVars, chanVars, stackVars, containerVars, numIncr, cpc, ci, counterWg, mu, count, printed>>

\* ... and writes the value read plus one.
IncWrite(g) ==
    /\ gstate[g] = "write"
    /\ count' = gtmp[g] + 1
    /\ gstate' = [gstate EXCEPT ![g] = "unlock"]
    /\ UNCHANGED <<poolVars, chanVars, stackVars, containerVars, numIncr, cpc, ci, counterWg, mu, gtmp, printed>>

\* Increment: the deferred c.mu.Unlock()
IncUnlock(g) ==
    /\ gstate[g] = "unlock"
    /\ mu' = FALSE
    /\ gstate' = [gstate EXCEPT ![g] = "done"]
    /\ UNCHANGED <<poolVars, chanVars, stackVars, containerVars, numIncr, cpc, ci, counterWg, count, gtmp, printed>>

\* the goroutine's deferred wg.Done()
IncDone(g) ==
    /\ gstate[g] = "done"
    /\ counterWg' = counterWg - 1
    /\ gstate' = [gstate EXCEPT ![g] = "finished"]
    /\ UNCHANGED <<poolVars, chanVars, stackVars, containerVars, numIncr, cpc, ci, mu, count, gtmp, printed>>

\* wg.Wait()
CounterWait ==
    /\ cpc = "wait"
    /\ WaitReturns(counterWg)
    /\ cpc' = "value_lock"
    /\ UNCHANGED <<poolVars, chanVars, stackVars, containerVars, numIncr, ci, counterWg, mu, count, gstate, gtmp, printed>>

\* Value: c.mu.Lock()
ValueLock ==
    /\ cpc = "value_lock"
    /\ LockFree(mu)
    /\ mu' = TRUE
    /\ cpc' = "value_read"
    /\ UNCHANGED <<poolVars, chanVars, stackVars, containerVars, numIncr, ci, counterWg, count, gstate, gtmp, printed>>

\* Value: return c.count
ValueRead ==
    /\ cpc = "value_read"
    /\ printed' = count
    /\ cpc' = "value_unlock"
    /\ UNCHANGED <<poolVars, chanVars, stackVars, containerVars, numIncr, ci, counterWg, mu, count, gstate, gtmp>>

\* Value: the deferred c.mu.Unlock()
ValueUnlock ==
    /\ cpc = "value_unlock"
    /\ mu' = FALSE
    /\ cpc' = "done"
    /\ UNCHANGED <<poolVars, chanVars, stackVars, containerVars, numIncr, ci, counterWg, count, gstate, gtmp, printed>>

CounterNext ==
    \/ CounterSpawn
    \/ CounterSpawnDone
    \/ \E g \in Incrementers : IncLock(g)
    \/ \E g \in Incrementers : IncRead(g)
    \/ \E g \in Incrementers : IncWrite(g)
    \/ \E g \in Incrementers : IncUnlock(g)
    \/ \E g \in Incrementers : IncDone(g)
    \/ CounterWait
    \/ ValueLock
    \/ ValueRead
    \/ ValueUnlock

CounterSpec == CounterInit /\ [][CounterNext]_vars

\* The goroutines between Lock and Unlock of Increment.
InIncrement == {g \in Incrementers : gstate[g] \in {"read", "write", "unlock"}}

\* main is between Lock and Unlock of Value.
InValue == cpc \in {"value_read", "value_unlock"}

\* C11: once wg.Wait has returned c.count is the number of goroutines and
\* Value() returns it; at most one goroutine (or main in Value) is between
\* Lock and Unlock, and c.count does not change between the read and the
\* write of one c.count++.
C11_NoLostUpdate ==
    /\ cpc \in {"value_lock", "value_read", "value_unlock", "done"} => count = numIncr
    /\ cpc = "done" => printed = numIncr
    /\ Cardinality(InIncrement) + (IF InValue THEN 1 ELSE 0) <= 1
    /\ \A g \in Incrementers : gstate[g] = "write" => count = gtmp[g]

\* Several goroutines incremented and Value() returned their number.
C11_Witness ==
    /\ cpc = "done"
    /\ numIncr >= 2
    /\ printed = numIncr

(***************************************************************************)
(* The channel example: processNumbers makes an unbuffered channel, starts *)
(* a goroutine that sends n*n for each element and then closes the         *)
(* channel, and main ranges over it.  A send on the unbuffered channel     *)
(* offers its value and returns when a receiver has taken it.              *)
(***************************************************************************)

\* The slices of at most n elements of S.
SeqsUpTo(S, n) == UNION {[1..m -> S] : m \in 0..n}

\* out <- n * n
square(n) == n * n

\* A loop that stops one element early.
LoopEndsEarly(k, n) == k >= n

\* for _, n := range numbers: no element is left
LoopEnds(k, n) == k > n

ChanInit ==
    /\ PoolIdle
    /\ CounterIdle
    /\ StackStart
    /\ ContainerStart
    /\ numbers \in SeqsUpTo(0..MaxNumber, MaxLen) \cup {<<1, 2, 3, 4, 5>>}
    /\ ChanStart

\* squaresChan := processNumbers(...): make(chan int); go func() {...}(); return out
ProcessNumbersCall ==
    /\ cstate = "call"
    /\ pstate' = "loop"
    /\ cstate' = "range"
    /\ UNCHANGED <<poolVars, counterVars, stackVars, containerVars, numbers, out, outClosed, pk, sq, received>>

\* the goroutine reaches out <- n * n and blocks, offering the value
ProducerOffer ==
    /\ pstate = "loop"
    /\ ~LoopEnds(pk, Len(numbers))
    /\ out' = <<square(numbers[pk])>>
    /\ pstate' = "sending"
    /\ UNCHANGED <<poolVars, counterVars, stackVars, containerVars, numbers, outClosed, pk, cstate, sq, received>>

\* for sq := range squaresChan: main takes the offered value, which lets the
\* send return and the goroutine's loop go on
ConsumerReceive ==
    /\ cstate = "range"
    /\ out # <<>>
    /\ sq' = Head(out)
    /\ out' = <<>>
    /\ pstate' = "loop"
    /\ pk' = pk + 1
    /\ cstate' = "body"
    /\ UNCHANGED <<poolVars, counterVars, stackVars, containerVars, numbers, outClosed, received>>

\* results = append(results, fmt.Sprintf("%d", sq)): the value is kept
ConsumerAppend ==
    /\ cstate = "body"
    /\ received' = Append(received, sq)
    /\ cstate' = "range"
    /\ UNCHANGED <<poolVars, counterVars, stackVars, containerVars, numbers, out, outClosed, pstate, pk, sq>>

\* the goroutine's loop ends and the deferred close(out) runs
ProducerClose ==
    /\ pstate = "loop"
    /\ LoopEnds(pk, Len(numbers))
    /\ outClosed' = TRUE
    /\ pstate' = "done"
    /\ UNCHANGED <<poolVars, counterVars, stackVars, containerVars, numbers, out, pk, cstate, sq, received>>

\* main's range ends: the channel is closed and nothing is offered
ConsumerEnd ==
    /\ cstate = "range"
    /\ RangeEnds(out, outClosed)
    /\ cstate' = "done"
    /\ UNCHANGED <<poolVars, counterVars, stackVars, containerVars, numbers, out, outClosed, pstate, pk, sq, received>>

ChanNext ==
    \/ ProcessNumbersCall
    \/ ProducerOffer
    \/ ConsumerReceive
    \/ ConsumerAppend
    \/ ProducerClose
    \/ ConsumerEnd

ChanSpec == ChanInit /\ [][ChanNext]_vars

\* The values main has received from the channel so far.
Taken == IF cstate = "body" THEN Append(received, sq) ELSE received

\* C12: main receives the squares of the elements in input order; out is
\* closed only after all of them have been received; when the range ends
\* exactly len(numbers) values have been received; and the pair never
\* deadlocks: some step is possible until both have finished.
C12_SquaresInOrderThenClose ==
    /\ Len(Taken) <= Len(numbers)
    /\ \A i \in 1..Len(Taken) : Taken[i] = numbers[i] * numbers[i]
    /\ outClosed => Len(Taken) = Len(numbers)
    /\ cstate = "done" => outClosed /\ Len(received) = Len(numbers)
    /\ (cstate = "done" /\ pstate = "done") \/ ENABLED ChanNext

\* The range over a slice of several distinct elements has ended, after the
\* goroutine closed the channel.
C12_Witness ==
    /\ cstate = "done"
    /\ pstate = "done"
    /\ Len(numbers) >= 3
    /\ numbers[1] # numbers[2]
    /\ Len(received) = Len(numbers)

(***************************************************************************)
(* The generic stack: Push appends to s.items, Pop returns and removes the *)
(* last element, or returns the zero value and false on an empty stack.    *)
(* Any sequence of at most MaxStackOps calls is made on a Stack[string].   *)
(***************************************************************************)

\* The strings main pushes.
StackItems == {"first", "second"}

\* var zero T, for T = string
zero == ""

\* A Pop that takes the oldest element.
PopItemFirst(s) == s[1]

\* item := s.items[len(s.items)-1]
PopItem(s) == s[Len(s)]

\* s.items[:len(s.items)-1]
PopRest(s) == SubSeq(s, 1, Len(s) - 1)

StackInit ==
    /\ PoolIdle
    /\ CounterIdle
    /\ ChanIdle
    /\ ContainerStart
    /\ StackStart

\* func (s *Stack[T]) Push(item T)
Push(item) ==
    /\ Len(stackHist) < MaxStackOps
    /\ items' = Append(items, item)
    /\ stackHist' = Append(stackHist,
                           [op |-> "push", x |-> item, ok |-> TRUE, before |-> items])
    /\ UNCHANGED <<poolVars, counterVars, chanVars, containerVars, popItem, popOk>>

\* func (s *Stack[T]) Pop() (T, bool), on an empty stack
PopEmpty ==
    /\ Len(stackHist) < MaxStackOps
    /\ Len(items) = 0
    /\ popItem' = zero
    /\ popOk' = FALSE
    /\ stackHist' = Append(stackHist,
                           [op |-> "pop", x |-> zero, ok |-> FALSE, before |-> items])
    /\ UNCHANGED <<poolVars, counterVars, chanVars, containerVars, items>>

\* func (s *Stack[T]) Pop() (T, bool), on a stack with elements
PopLast ==
    /\ Len(stackHist) < MaxStackOps
    /\ Len(items) # 0
    /\ popItem' = PopItem(items)
    /\ popOk' = TRUE
    /\ items' = PopRest(items)
    /\ stackHist' = Append(stackHist,
                           [op |-> "pop", x |-> PopItem(items), ok |-> TRUE,
                            before |-> items])
    /\ UNCHANGED <<poolVars, counterVars, chanVars, containerVars>>

StackNext ==
    \/ \E item \in StackItems : Push(item)
    \/ PopEmpty
    \/ PopLast

StackSpec == StackInit /\ [][StackNext]_vars

\* The most recently pushed item of the calls h that no later Pop of h has
\* returned, as a one-element sequence; <<>> when there is none.  The calls
\* are read backwards; skip counts the successful Pops still to be matched.
RECURSIVE LivePush(_, _)
LivePush(h, skip) ==
    IF h = <<>> THEN <<>>
    ELSE LET e == h[Len(h)]
             rest == SubSeq(h, 1, Len(h) - 1)
         IN  IF e.op = "pop"
             THEN LivePush(rest, IF e.ok THEN skip + 1 ELSE skip)
             ELSE IF skip = 0 THEN <<e.x>> ELSE LivePush(rest, skip - 1)

\* C13: after any sequence of calls ending in a Pop: if an item was pushed
\* and not yet popped, Pop returned the most recent such item with true and
\* removed exactly the last element; otherwise it returned the zero value
\* with false and the stack stayed empty; and a Pop right after Push(x)
\* returned (x, true) and left the contents as they were before the Push.
C13_StackLifo ==
    LET n == Len(stackHist) IN
    (n >= 1 /\ stackHist[n].op = "pop") =>
        LET before == stackHist[n].before
            live == LivePush(SubSeq(stackHist, 1, n - 1), 0)
        IN  /\ (before = <<>>) <=> (live = <<>>)
            /\ live # <<>> =>
                  /\ popItem = live[1] /\ popOk = TRUE
                  /\ Len(items) = Len(before) - 1
                  /\ \A k \in 1..Len(items) : items[k] = before[k]
            /\ live = <<>> =>
                  /\ popItem = "" /\ popOk = FALSE
                  /\ items = <<>>
            /\ (n >= 2 /\ stackHist[n - 1].op = "push") =>
                  /\ popItem = stackHist[n - 1].x /\ popOk = TRUE
                  /\ items = stackHist[n - 1].before

\* main's calls: Push("first"), Push("second"), Pop returned "second".
C13_Witness ==
    /\ Len(stackHist) = 3
    /\ stackHist[1].op = "push" /\ stackHist[1].x = "first"
    /\ stackHist[2].op = "push" /\ stackHist[2].x = "second"
    /\ stackHist[3].op = "pop"
    /\ popItem = "second" /\ popOk = TRUE
    /\ items = <<"first">>

(***************************************************************************)
(* The TypeScript Container: items is a Map from id to item.  A Map keeps  *)
(* its entries in the order their keys were first set; set on a key that   *)
(* is present replaces the value in place.  Any sequence of at most        *)
(* MaxAdds calls of add is made, with ids 1..MaxId and main's two values.  *)
(***************************************************************************)

\* The items { id, value } a Container is given.
ContainerItems == [id : 1..MaxId, value : {"first", "second"}]

\* The positions of the entries of m with key k.
EntriesOf(m, k) == {i \in 1..Len(m) : m[i].key = k}

\* A set that appends an entry even when the key is present (an array push).
MapSetAppend(m, k, v) == Append(m, [key |-> k, val |-> v])

\* Map.prototype.set
MapSet(m, k, v) ==
    IF EntriesOf(m, k) = {}
    THEN Append(m, [key |-> k, val |-> v])
    ELSE [i \in 1..Len(m) |-> IF m[i].key = k THEN [key |-> k, val |-> v] ELSE m[i]]

\* Map.prototype.get: the value of the first entry with the key, as a
\* one-element sequence; <<>> stands for undefined.
MapGet(m, k) ==
    IF EntriesOf(m, k) = {}
    THEN <<>>
    ELSE <<m[CHOOSE i \in EntriesOf(m, k) : \A i2 \in EntriesOf(m, k) : i <= i2].val>>

\* Array.from(map.values())
MapValues(m) == [i \in 1..Len(m) |-> m[i].val]

\* get(id: number): T | undefined
Get(id) == MapGet(cItems, id)

\* getAll(): T[]
GetAll == MapValues(cItems)

ContainerInit ==
    /\ PoolIdle
    /\ CounterIdle
    /\ ChanIdle
    /\ StackStart
    /\ ContainerStart

\* add(item: T): void
Add(item) ==
    /\ Len(addHist) < MaxAdds
    /\ cItems' = MapSet(cItems, item.id, item)
    /\ addHist' = Append(addHist, [item |-> item, before |-> cItems])
    /\ UNCHANGED <<poolVars, counterVars, chanVars, stackVars>>

ContainerNext == \E item \in ContainerItems : Add(item)

ContainerSpec == ContainerInit /\ [][ContainerNext]_vars

\* The positions of the calls of add that gave an item with this id.
AddsOf(id) == {k \in 1..Len(addHist) : addHist[k].item.id = id}

\* The item of the latest call of add with this id.
LatestAdded(id) ==
    addHist[CHOOSE k \in AddsOf(id) : \A k2 \in AddsOf(id) : k2 <= k].item

\* C14: after any sequence of add calls, get(id) is the item most recently
\* added with that id (undefined if none), getAll() holds exactly one item
\* for each id added and nothing else, and an add whose id was present
\* replaced that item and changed neither the number of items nor any
\* other id's item.
C14_OneItemPerId ==
    /\ \A id \in 1..MaxId :
          /\ Get(id) = (IF AddsOf(id) = {} THEN <<>> ELSE <<LatestAdded(id)>>)
          /\ Cardinality({i \in 1..Len(GetAll) : GetAll[i].id = id})
                = (IF AddsOf(id) = {} THEN 0 ELSE 1)
    /\ \A i \in 1..Len(GetAll) : GetAll[i].id \in 1..MaxId
    /\ LET n == Len(addHist) IN
       (n >= 1 /\ MapGet(addHist[n].before, addHist[n].item.id) # <<>>) =>
          /\ Len(GetAll) = Len(MapValues(addHist[n].before))
          /\ Get(addHist[n].item.id) = <<addHist[n].item>>
          /\ \A id \in 1..MaxId \ {addHist[n].item.id} :
                Get(id) = MapGet(addHist[n].before, id)

\* An item was added under an id that already held a different item, with
\* another id present.
C14_Witness ==
    LET n == Len(addHist) IN
    /\ n >= 3
    /\ MapGet(addHist[n].before, addHist[n].item.id) # <<>>
    /\ MapGet(addHist[n].before, addHist[n].item.id) # <<addHist[n].item>>
    /\ Len(GetAll) = 2
====
